---- MODULE Spec2Model ----
(***************************************************************************)
(* Model of src/src/app.py: the activities collection, the seed loader     *)
(* (initialize_database) run by the lifespan at process start, and the     *)
(* signup / unregister request handlers, split at their await points.      *)
(***************************************************************************)
EXTENDS Integers, Sequences, FiniteSets, TLC

(* ------------------------------------------------------------------ *)
(* Bounds and program constants                                         *)
(* ------------------------------------------------------------------ *)

\* `if count > 10` in initialize_database
Threshold == 10

\* requests one process handles between its startup and its shutdown
MaxReqs == 2

\* max_participants values a catalog entry may carry
Caps == {1, 2}

\* emails a request body may carry
Emails == {"a@x.com", "b@x.com"}

\* activity names (the _id of a record) are 1, 2, ...; requests name these
ReqNames == {1, 2}

\* sizes of the activities.json catalogs a deployment may ship
CatalogSizes == {1, Threshold + 1}

\* participant lists a catalog entry may be shipped with (the loader copies
\* whatever list the entry carries)
SeedLists == {<< >>, <<"a@x.com">>}

\* one entry of activities.json
Details(i, cap, seed) ==
    [description |-> i, schedule |-> i, max_participants |-> cap, participants |-> seed]

\* json.load(activities.json): name -> details
Catalogs ==
    { [i \in 1..n |-> Details(i, cap, seed)] :
        n \in CatalogSizes, cap \in Caps, seed \in SeedLists }

VARIABLES
    store,      \* the activities collection: _id -> document fields
    up,         \* whether the process has started (lifespan yielded)
    catalog,    \* activities.json of this deployment (initial_activities)
    count,      \* the count initialize_database last read (before any reset)
    reqs,       \* request slot -> the handler's locals and position
    recent,     \* slots of the last request steps (at most four) since startup
    limit       \* signup requests the server lets run at the same time

vars == <<store, up, catalog, count, reqs, recent, limit>>

Slots == 1..MaxReqs

(* ------------------------------------------------------------------ *)
(* Collection operations                                                *)
(* ------------------------------------------------------------------ *)

\* collection.count_documents({})
CountDocuments(s) == Cardinality(DOMAIN s)

\* collection.drop()
Drop(s) == << >>

\* collection.find_one({"_id": name}): <<doc>> or << >> for None
FindOne(s, name) == IF name \in DOMAIN s THEN <<s[name]>> ELSE << >>

\* the for loop of insert_one({"_id": name, **details}) over the catalog; it
\* runs on an empty collection only, a taken _id would keep its document
InsertAll(s, cat) ==
    [n \in DOMAIN s \cup DOMAIN cat |-> IF n \in DOMAIN s THEN s[n] ELSE cat[n]]

\* a push that re-validates the capacity inside the store
PushIfRoom(s, name, email) ==
    IF name \in DOMAIN s /\ Len(s[name].participants) < s[name].max_participants
    THEN [s EXCEPT ![name].participants = Append(@, email)]
    ELSE s

\* a push whose filter does not name the activity: the first document is updated
PushAnyDocument(s, name, email) ==
    IF name \in DOMAIN s
    THEN [s EXCEPT ![1].participants = Append(@, email)]
    ELSE s

\* a write of the whole list ($set) in place of the push
PushOverwrite(s, name, email) ==
    IF name \in DOMAIN s
    THEN [s EXCEPT ![name].participants = <<email>>]
    ELSE s

\* a push at the front of the list
PushFront(s, name, email) ==
    IF name \in DOMAIN s
    THEN [s EXCEPT ![name].participants = <<email>> \o @]
    ELSE s

\* update_one({"_id": name}, {"$push": {"participants": email}})
Push(s, name, email) ==
    IF name \in DOMAIN s
    THEN [s EXCEPT ![name].participants = Append(@, email)]
    ELSE s

\* a removal of the first element equal to email only
RECURSIVE PullFirst(_, _)
PullFirst(list, email) ==
    IF list = << >> THEN << >>
    ELSE IF Head(list) = email THEN Tail(list)
    ELSE <<Head(list)>> \o PullFirst(Tail(list), email)

\* $pull removes every element equal to email
PullAll(list, email) == SelectSeq(list, LAMBDA x : x # email)

\* update_one({"_id": name}, {"$pull": {"participants": email}})
Pull(s, name, email) ==
    IF name \in DOMAIN s
    THEN [s EXCEPT ![name].participants = PullAll(@, email)]
    ELSE s

\* email in activity["participants"]
In(email, list) == \E k \in 1..Len(list) : list[k] = email

(* ------------------------------------------------------------------ *)
(* Seed loader                                                          *)
(* ------------------------------------------------------------------ *)

\* a reset of every non-empty collection
TooManyAny(c) == c > 0

\* a reset that spares a collection one over the threshold
TooManyOffByOne(c) == c > Threshold + 1

\* `if count > 10`
TooMany(c) == c > Threshold

\* `if count == 0` after the reset
MustPopulate(c) == c = 0

\* initialize_database(collection) with initial_activities = cat
InitializeDatabase(s, cat) ==
    LET c0 == CountDocuments(s)
        s1 == IF TooMany(c0) THEN Drop(s) ELSE s
        c1 == IF TooMany(c0) THEN 0 ELSE c0
    IN  IF MustPopulate(c1) THEN InsertAll(s1, cat) ELSE s1

(* ------------------------------------------------------------------ *)
(* Request handlers                                                     *)
(* ------------------------------------------------------------------ *)

NoResponse == [code |-> 0, detail |-> ""]
NotFound == [code |-> 404, detail |-> "Activity not found"]
AlreadyRegistered == [code |-> 400, detail |-> "Already signed up for this activity"]
ActivityFull == [code |-> 400, detail |-> "Activity is full"]
NotRegistered == [code |-> 400, detail |-> "Participant not found in this activity"]
SignedUp == [code |-> 200, detail |-> "Signed up"]
Unregistered == [code |-> 200, detail |-> "Unregistered"]

IdleReq ==
    [pc |-> "idle", op |-> "none", name |-> 0, email |-> "", activity |-> << >>,
     response |-> NoResponse]

\* the step history after slot r takes a step: only the last four are kept
Note(r) == IF Len(recent) < 4 THEN Append(recent, r) ELSE Append(Tail(recent), r)

\* signup validation without the 404 check
SignupResponseNoLookupCheck(activity, email) ==
    IF activity # << >> /\ In(email, activity[1].participants) THEN AlreadyRegistered
    ELSE IF activity # << >>
            /\ Len(activity[1].participants) >= activity[1].max_participants
         THEN ActivityFull
    ELSE SignedUp

\* signup validation with the capacity test off by one
SignupResponseLateFull(activity, email) ==
    IF activity = << >> THEN NotFound
    ELSE IF In(email, activity[1].participants) THEN AlreadyRegistered
    ELSE IF Len(activity[1].participants) > activity[1].max_participants THEN ActivityFull
    ELSE SignedUp

\* signup validation without the duplicate test
SignupResponseNoDuplicateCheck(activity, email) ==
    IF activity = << >> THEN NotFound
    ELSE IF Len(activity[1].participants) >= activity[1].max_participants THEN ActivityFull
    ELSE SignedUp

\* signup validation with the capacity test ahead of the duplicate test
SignupResponseFullFirst(activity, email) ==
    IF activity = << >> THEN NotFound
    ELSE IF Len(activity[1].participants) >= activity[1].max_participants THEN ActivityFull
    ELSE IF In(email, activity[1].participants) THEN AlreadyRegistered
    ELSE SignedUp

\* the validation of signup_for_activity on the fetched activity
SignupResponse(activity, email) ==
    IF activity = << >> THEN NotFound
    ELSE IF In(email, activity[1].participants) THEN AlreadyRegistered
    ELSE IF Len(activity[1].participants) >= activity[1].max_participants THEN ActivityFull
    ELSE SignedUp

\* the validation of unregister_participant on the fetched activity
UnregisterResponse(activity, email) ==
    IF activity = << >> THEN NotFound
    ELSE IF ~In(email, activity[1].participants) THEN NotRegistered
    ELSE Unregistered

\* a fresh collection and a process not yet started
InitStore ==
    /\ store = << >>
    /\ up = FALSE
    /\ catalog \in Catalogs
    /\ count = 0
    /\ reqs = [r \in Slots |-> IdleReq]
    /\ recent = << >>

\* the server puts no limit of its own on concurrent requests
Init == InitStore /\ limit = MaxReqs

\* the server is run with some limit on concurrent signups
InitLimited == InitStore /\ limit \in 1..MaxReqs

\* signup requests between their find_one and their response
SignupsInFlight == {q \in Slots : reqs[q].pc = "fetched" /\ reqs[q].op = "signup"}

\* lifespan startup: await initialize_database(app.state.db.activities)
Startup ==
    /\ ~up
    /\ up' = TRUE
    /\ count' = CountDocuments(store)
    /\ store' = InitializeDatabase(store, catalog)
    /\ UNCHANGED <<catalog, reqs, recent, limit>>

\* lifespan shutdown once no request is in flight: the process and its
\* handlers' locals are gone, the collection stays
Shutdown ==
    /\ up
    /\ \A r \in Slots : reqs[r].pc # "fetched"
    /\ up' = FALSE
    /\ recent' = << >>
    /\ reqs' = [r \in Slots |-> IdleReq]
    /\ UNCHANGED <<store, catalog, count, limit>>

\* a request enters a handler and runs to the return of await find_one
Fetch(r, op, name, email) ==
    /\ up
    /\ reqs[r].pc = "idle"
    /\ \A q \in Slots : q < r => reqs[q].pc # "idle"
    /\ op = "signup" => Cardinality(SignupsInFlight) < limit
    /\ reqs' = [reqs EXCEPT ![r] =
                  [pc |-> "fetched", op |-> op, name |-> name, email |-> email,
                   activity |-> FindOne(store, name), response |-> NoResponse]]
    /\ recent' = Note(r)
    /\ UNCHANGED <<store, up, catalog, count, limit>>

\* signup_for_activity from the return of find_one to its response
SignupFinish(r) ==
    /\ reqs[r].pc = "fetched"
    /\ reqs[r].op = "signup"
    /\ LET resp == SignupResponse(reqs[r].activity, reqs[r].email)
       IN  /\ store' = IF resp = SignedUp
                       THEN Push(store, reqs[r].name, reqs[r].email)
                       ELSE store
           /\ reqs' = [reqs EXCEPT ![r].pc = "done", ![r].response = resp]
    /\ recent' = Note(r)
    /\ UNCHANGED <<up, catalog, count, limit>>

\* unregister_participant from the return of find_one to its response
UnregisterFinish(r) ==
    /\ reqs[r].pc = "fetched"
    /\ reqs[r].op = "unregister"
    /\ LET resp == UnregisterResponse(reqs[r].activity, reqs[r].email)
       IN  /\ store' = IF resp = Unregistered
                       THEN Pull(store, reqs[r].name, reqs[r].email)
                       ELSE store
           /\ reqs' = [reqs EXCEPT ![r].pc = "done", ![r].response = resp]
    /\ recent' = Note(r)
    /\ UNCHANGED <<up, catalog, count, limit>>

Next ==
    \/ Startup
    \/ Shutdown
    \/ \E r \in Slots, op \in {"signup", "unregister"}, name \in ReqNames, email \in Emails :
          Fetch(r, op, name, email)
    \/ \E r \in Slots : SignupFinish(r)
    \/ \E r \in Slots : UnregisterFinish(r)

Spec == Init /\ [][Next]_vars

\* the same program behind a server that limits concurrent signups
SpecLimited == InitLimited /\ [][Next]_vars

\* one process lifetime on a fresh collection: startup, then requests
NextOneLife ==
    \/ Startup
    \/ \E r \in Slots, op \in {"signup", "unregister"}, name \in ReqNames, email \in Emails :
          Fetch(r, op, name, email)
    \/ \E r \in Slots : SignupFinish(r)
    \/ \E r \in Slots : UnregisterFinish(r)

SpecOneLife == Init /\ [][NextOneLife]_vars

(* ------------------------------------------------------------------ *)
(* Steps and helpers used by the properties                             *)
(* ------------------------------------------------------------------ *)

\* slot r's request enters its handler in this step
FetchStep(r) == reqs[r].pc = "idle" /\ reqs'[r].pc = "fetched"

\* slot r's request answers in this step
FinishStep(r) == reqs[r].pc = "fetched" /\ reqs'[r].pc = "done"

\* the seed loader runs in this step
StartupStep == ~up /\ up'

\* number of positions of list holding email
Occurrences(list, email) == Cardinality({k \in 1..Len(list) : list[k] = email})

\* the last three request steps were: r1 entered, r1 answered, r2 entered
Consecutive(r1, r2) ==
    /\ r1 # r2
    /\ Len(recent) >= 3
    /\ SubSeq(recent, Len(recent) - 2, Len(recent)) = <<r1, r1, r2>>

(* ------------------------------------------------------------------ *)
(* C1 - C2: roster invariants                                           *)
(* ------------------------------------------------------------------ *)

\* C1: in every reachable state every activity's participant list is no
\* longer than its max_participants.
C1_CapacityInvariant ==
    \A n \in DOMAIN store :
        Len(store[n].participants) <= store[n].max_participants

\* C2: in every reachable state no email occurs twice in one activity's
\* participant list.
C2_UniquenessInvariant ==
    \A n \in DOMAIN store : \A e \in Emails :
        Occurrences(store[n].participants, e) <= 1

(* ------------------------------------------------------------------ *)
(* C3: unknown activity                                                 *)
(* ------------------------------------------------------------------ *)

\* C3: every step of a signup or unregister request that names an activity
\* with no record leaves the store as it was, and the request answers 404
\* "Activity not found".
C3_NotFoundNoMutation ==
    [][\A r \in Slots :
          ((FetchStep(r) \/ FinishStep(r)) /\ reqs'[r].name \notin DOMAIN store)
          => /\ store' = store
             /\ FinishStep(r) => reqs'[r].response = NotFound]_vars

\* a signup and an unregister on a missing activity have both been answered 404
C3_Witness ==
    \E r1, r2 \in Slots :
        /\ reqs[r1].pc = "done" /\ reqs[r1].op = "signup"
        /\ reqs[r2].pc = "done" /\ reqs[r2].op = "unregister"
        /\ reqs[r1].name \notin DOMAIN store /\ reqs[r2].name \notin DOMAIN store
        /\ reqs[r1].response = NotFound /\ reqs[r2].response = NotFound

(* ------------------------------------------------------------------ *)
(* C4: full activity                                                    *)
(* ------------------------------------------------------------------ *)

\* the activity slot r fetched exists and is at or over capacity
FetchedFull(r) ==
    /\ reqs[r].activity # << >>
    /\ Len(reqs[r].activity[1].participants) >= reqs[r].activity[1].max_participants

\* C4 as claimed: a signup that fetched an activity at capacity answers 400
\* "Activity is full" and leaves its participant list unchanged, whatever the
\* email.
C4_FullAlwaysActivityFull ==
    [][\A r \in Slots :
          (FinishStep(r) /\ reqs[r].op = "signup" /\ FetchedFull(r))
          => /\ reqs'[r].response = ActivityFull
             /\ store' = store]_vars

\* C4 as amended: a signup that fetched an activity at capacity, for an email
\* not in the fetched participant list, answers 400 "Activity is full" and
\* leaves the store unchanged; for an email in that list it answers 400
\* "Already signed up for this activity", again without any change.
C4_FullUnlessRegistered ==
    [][\A r \in Slots :
          (FinishStep(r) /\ reqs[r].op = "signup" /\ FetchedFull(r))
          => /\ reqs'[r].response =
                   IF In(reqs[r].email, reqs[r].activity[1].participants)
                   THEN AlreadyRegistered ELSE ActivityFull
             /\ store' = store]_vars

\* a signup for a new email on a full activity has been answered "Activity is full"
C4_Witness ==
    \E r \in Slots :
        /\ reqs[r].pc = "done" /\ reqs[r].op = "signup"
        /\ FetchedFull(r)
        /\ ~In(reqs[r].email, reqs[r].activity[1].participants)
        /\ reqs[r].response = ActivityFull
        /\ store[reqs[r].name].participants = reqs[r].activity[1].participants

(* ------------------------------------------------------------------ *)
(* C5 - C6: the same request twice in a row                             *)
(* ------------------------------------------------------------------ *)

\* slot r2 repeats the request slot r1 made
SameRequest(r1, r2) ==
    /\ reqs[r1].op = reqs[r2].op
    /\ reqs[r1].name = reqs[r2].name
    /\ reqs[r1].email = reqs[r2].email

\* C5: when a signup answered 200 and the very next request, with no step of
\* any other request or of the seed loader in between, is the same signup,
\* that second request answers 400 "Already signed up for this activity",
\* changes nothing, and the email is in the participant list exactly once.
C5_SignupTwice ==
    [][\A r1, r2 \in Slots :
          (/\ Consecutive(r1, r2)
           /\ FinishStep(r2)
           /\ SameRequest(r1, r2)
           /\ reqs[r1].op = "signup"
           /\ reqs[r1].response = SignedUp)
          => /\ reqs'[r2].response = AlreadyRegistered
             /\ store' = store
             /\ Occurrences(store'[reqs[r2].name].participants, reqs[r2].email) = 1]_vars

\* a signup answered 200 and its immediate repetition answered "Already signed up"
C5_Witness ==
    \E r1, r2 \in Slots :
        /\ recent = <<r1, r1, r2, r2>> /\ r1 # r2
        /\ SameRequest(r1, r2)
        /\ reqs[r1].op = "signup"
        /\ reqs[r1].response = SignedUp
        /\ reqs[r2].response = AlreadyRegistered
        /\ Occurrences(store[reqs[r2].name].participants, reqs[r2].email) = 1

\* C6: an unregister that fetched an activity listing its email answers 200;
\* when the very next request, with no step of any other request or of the
\* seed loader in between, is the same unregister, that second request
\* answers 400 "Participant not found in this activity" and changes nothing.
C6_UnregisterTwice ==
    [][\A r2 \in Slots :
          /\ (/\ FinishStep(r2)
              /\ reqs[r2].op = "unregister"
              /\ reqs[r2].activity # << >>
              /\ In(reqs[r2].email, reqs[r2].activity[1].participants))
             => reqs'[r2].response = Unregistered
          /\ \A r1 \in Slots :
               (/\ Consecutive(r1, r2)
                /\ FinishStep(r2)
                /\ SameRequest(r1, r2)
                /\ reqs[r1].op = "unregister"
                /\ reqs[r1].response = Unregistered)
               => /\ reqs'[r2].response = NotRegistered
                  /\ store' = store]_vars

\* an unregister answered 200 and its immediate repetition answered "not found"
C6_Witness ==
    \E r1, r2 \in Slots :
        /\ recent = <<r1, r1, r2, r2>> /\ r1 # r2
        /\ SameRequest(r1, r2)
        /\ reqs[r1].op = "unregister"
        /\ reqs[r1].response = Unregistered
        /\ In(reqs[r1].email, reqs[r1].activity[1].participants)
        /\ reqs[r2].response = NotRegistered
        /\ ~In(reqs[r2].email, store[reqs[r2].name].participants)

(* ------------------------------------------------------------------ *)
(* C7 - C9: seed loader                                                 *)
(* ------------------------------------------------------------------ *)

\* C7: a run of the seed loader on a collection holding between 1 and 10
\* documents leaves every document, participant lists included, unchanged.
C7_SeedIdempotent ==
    [][(StartupStep /\ CountDocuments(store) \in 1..Threshold) => store' = store]_vars

\* the seed loader has just run on a populated collection whose participant
\* lists had moved away from the catalog
C7_Witness ==
    /\ up
    /\ \A r \in Slots : reqs[r].pc = "idle"
    /\ count \in 1..Threshold
    /\ CountDocuments(store) = count
    /\ \E n \in DOMAIN store : store[n].participants # catalog[n].participants

\* C8: an activity that exists stays in the store, and its participant list
\* changes only in the answering step of a signup or unregister request that
\* names it; no run of the seed loader removes or resets it.
C8_OnlyRequestsChangeRosters ==
    [][\A n \in DOMAIN store :
          /\ n \in DOMAIN store'
          /\ store'[n].participants # store[n].participants
             => \E r \in Slots : FinishStep(r) /\ reqs[r].name = n]_vars

\* C9: a run of the seed loader on a collection holding 0 documents or more
\* than 10 documents leaves exactly one document per catalog entry, keyed by
\* the entry's name and carrying the entry's fields, and no other document.
C9_SeedPopulates ==
    [][(StartupStep /\ (CountDocuments(store) = 0 \/ CountDocuments(store) > Threshold))
          => store' = catalog]_vars

\* the seed loader has just run on a collection of more than 10 documents
C9_Witness ==
    /\ up
    /\ \A r \in Slots : reqs[r].pc = "idle"
    /\ count > Threshold
    /\ store = catalog

(* ------------------------------------------------------------------ *)
(* C10: the capacity race                                               *)
(* ------------------------------------------------------------------ *)

\* slots r1 and r2 are signups of different emails for one activity that both
\* fetched the same participant list with exactly one free slot, and both
\* have answered; no other answered request named that activity
RacedForLastSlot(r1, r2) ==
    /\ r1 # r2
    /\ reqs[r1].pc = "done" /\ reqs[r2].pc = "done"
    /\ reqs[r1].op = "signup" /\ reqs[r2].op = "signup"
    /\ reqs[r1].name = reqs[r2].name
    /\ reqs[r1].email # reqs[r2].email
    /\ reqs[r1].activity # << >>
    /\ reqs[r1].activity = reqs[r2].activity
    /\ Len(reqs[r1].activity[1].participants) + 1 = reqs[r1].activity[1].max_participants
    /\ ~In(reqs[r1].email, reqs[r1].activity[1].participants)
    /\ ~In(reqs[r2].email, reqs[r2].activity[1].participants)
    /\ \A r3 \in Slots \ {r1, r2} :
          reqs[r3].pc # "done" \/ reqs[r3].name # reqs[r1].name

\* C10: whenever two signups of different emails have both read the same
\* participant list with one free slot before either appended, both answer
\* 200 and the list ends one longer than max_participants.
C10_RaceOverfills ==
    \A r1, r2 \in Slots :
        RacedForLastSlot(r1, r2)
        => /\ reqs[r1].response = SignedUp
           /\ reqs[r2].response = SignedUp
           /\ Len(store[reqs[r1].name].participants)
                = store[reqs[r1].name].max_participants + 1

\* the interleaving exists: both raced signups answered 200 and the list is
\* one over capacity
C10_Witness ==
    \E r1, r2 \in Slots :
        /\ RacedForLastSlot(r1, r2)
        /\ reqs[r1].response = SignedUp
        /\ reqs[r2].response = SignedUp
        /\ Len(store[reqs[r1].name].participants)
             = store[reqs[r1].name].max_participants + 1

(* ------------------------------------------------------------------ *)
(* C11 - C13: effect of one request                                     *)
(* ------------------------------------------------------------------ *)

\* C11: an unregister answered 200 leaves the participant list equal to the
\* previous list with its first occurrence of the email deleted, one shorter
\* than before, in every reachable state.
C11_UnregisterRemovesOne ==
    [][\A r \in Slots :
          (FinishStep(r) /\ reqs[r].op = "unregister" /\ reqs'[r].response = Unregistered)
          => /\ store'[reqs[r].name].participants
                  = PullFirst(store[reqs[r].name].participants, reqs[r].email)
             /\ Len(store'[reqs[r].name].participants)
                  = Len(store[reqs[r].name].participants) - 1]_vars

\* C12: a signup answered 200 appends its email at the end of the named
\* activity's participant list and changes nothing else in the store; an
\* unregister answered 200 keeps the remaining emails in their order. Hence
\* the list order is the order in which the remaining appends were applied.
C12_SignupAppendsAtEnd ==
    [][\A r \in Slots :
          /\ (FinishStep(r) /\ reqs[r].op = "signup" /\ reqs'[r].response = SignedUp)
             => /\ reqs[r].name \in DOMAIN store
                /\ store' = [store EXCEPT ![reqs[r].name].participants =
                                Append(store[reqs[r].name].participants, reqs[r].email)]
          /\ (FinishStep(r) /\ reqs[r].op = "unregister" /\ reqs'[r].response = Unregistered)
             => store'[reqs[r].name].participants
                  = SelectSeq(store[reqs[r].name].participants,
                              LAMBDA x : x # reqs[r].email)]_vars

\* a signup answered 200 whose email is last in a list of two or more
C12_Witness ==
    \E r \in Slots :
        /\ reqs[r].pc = "done" /\ reqs[r].op = "signup"
        /\ reqs[r].response = SignedUp
        /\ Len(store[reqs[r].name].participants) >= 2
        /\ store[reqs[r].name].participants[Len(store[reqs[r].name].participants)]
             = reqs[r].email
        /\ store[reqs[r].name].participants[1] # reqs[r].email

\* C13: signup validates in the order 404, then "Already signed up", then
\* "Activity is full": a missing activity answers 404; an email in the fetched
\* list answers "Already signed up" even when the list is at capacity; and
\* "Activity is full" is answered only for an email not in the fetched list.
C13_ValidationOrder ==
    [][\A r \in Slots :
          (FinishStep(r) /\ reqs[r].op = "signup")
          => /\ reqs[r].activity = << >> => reqs'[r].response = NotFound
             /\ (reqs[r].activity # << >>
                 /\ In(reqs[r].email, reqs[r].activity[1].participants))
                => reqs'[r].response = AlreadyRegistered
             /\ reqs'[r].response = ActivityFull
                => /\ FetchedFull(r)
                   /\ ~In(reqs[r].email, reqs[r].activity[1].participants)]_vars

\* a signup of a registered email on an activity at capacity answered
\* "Already signed up"
C13_Witness ==
    \E r \in Slots :
        /\ reqs[r].pc = "done" /\ reqs[r].op = "signup"
        /\ FetchedFull(r)
        /\ In(reqs[r].email, reqs[r].activity[1].participants)
        /\ reqs[r].response = AlreadyRegistered

(* ------------------------------------------------------------------ *)
(* C14: no lost update                                                  *)
(* ------------------------------------------------------------------ *)

\* the answered signups of this process for the request slot r made that
\* were answered 200
SuccessfulSignups(r) ==
    {q \in Slots : /\ reqs[q].pc = "done"
                   /\ SameRequest(r, q)
                   /\ reqs[q].response = SignedUp}

\* an unregister of slot r's activity and email has been answered 200
UnregisteredSince(r) ==
    \E q \in Slots :
        /\ reqs[q].pc = "done" /\ reqs[q].op = "unregister"
        /\ reqs[q].name = reqs[r].name /\ reqs[q].email = reqs[r].email
        /\ reqs[q].response = Unregistered

\* C14: when signups have been answered 200 and no unregister of their email
\* has succeeded, the participant list holds the email of every one of them,
\* once per successful signup: no append is overwritten by another request.
C14_NoLostUpdate ==
    \A r \in Slots :
        (/\ reqs[r].pc = "done" /\ reqs[r].op = "signup"
         /\ reqs[r].response = SignedUp
         /\ ~UnregisteredSince(r))
        => Occurrences(store[reqs[r].name].participants, reqs[r].email)
             >= Cardinality(SuccessfulSignups(r))

\* two signups that read the same list before either appended were both
\* answered 200 and both emails are in the list
C14_Witness ==
    \E r1, r2 \in Slots :
        /\ r1 # r2
        /\ reqs[r1].pc = "done" /\ reqs[r2].pc = "done"
        /\ reqs[r1].op = "signup" /\ reqs[r2].op = "signup"
        /\ reqs[r1].response = SignedUp /\ reqs[r2].response = SignedUp
        /\ reqs[r1].name = reqs[r2].name
        /\ reqs[r1].email # reqs[r2].email
        /\ reqs[r1].activity = reqs[r2].activity
        /\ In(reqs[r1].email, store[reqs[r1].name].participants)
        /\ In(reqs[r2].email, store[reqs[r1].name].participants)

(* ------------------------------------------------------------------ *)
(* C15: bound on the race                                               *)
(* ------------------------------------------------------------------ *)

\* C15: with at most limit signups in flight at any time, every participant
\* list is at most max_participants + limit - 1 long; with limit 1 (signups
\* never overlap) no list exceeds max_participants.
C15_OverfillBound ==
    \A n \in DOMAIN store :
        Len(store[n].participants) <= store[n].max_participants + limit - 1

\* with two or more signups allowed in flight the bound is attained
C15_Witness ==
    /\ limit >= 2
    /\ \E n \in DOMAIN store :
          Len(store[n].participants) = store[n].max_participants + limit - 1

(* ------------------------------------------------------------------ *)
(* C16: accounting of registrations                                     *)
(* ------------------------------------------------------------------ *)

\* unregister requests for (name, email) answered 200
UnregisterSuccesses(name, email) ==
    Cardinality({q \in Slots : /\ reqs[q].pc = "done" /\ reqs[q].op = "unregister"
                               /\ reqs[q].name = name /\ reqs[q].email = email
                               /\ reqs[q].response = Unregistered})

\* signup requests for (name, email) whose append has been applied
AppliedSignups(name, email) ==
    Cardinality({q \in Slots : /\ reqs[q].pc = "done" /\ reqs[q].op = "signup"
                               /\ reqs[q].name = name /\ reqs[q].email = email
                               /\ reqs[q].response = SignedUp})

\* registrations of email the catalog entry was seeded with
SeededRegistrations(name, email) ==
    IF name \in DOMAIN catalog THEN Occurrences(catalog[name].participants, email) ELSE 0

\* C16: in one process lifetime on a freshly seeded collection, for every
\* activity and email the unregisters answered 200 never outnumber the
\* registrations made: the signups whose append was applied plus the entries
\* the catalog was seeded with.
C16_UnregistersWithinRegistrations ==
    \A name \in ReqNames : \A email \in Emails :
        UnregisterSuccesses(name, email)
          <= AppliedSignups(name, email) + SeededRegistrations(name, email)

(* ------------------------------------------------------------------ *)
(* C17: frame of a request                                              *)
(* ------------------------------------------------------------------ *)

\* C17: every step of a signup or unregister request, whatever its answer,
\* keeps the set of activity names, leaves every other activity's document
\* unchanged, and leaves the named activity's description, schedule and
\* max_participants unchanged.
C17_RequestFrame ==
    [][\A r \in Slots :
          (FetchStep(r) \/ FinishStep(r))
          => /\ DOMAIN store' = DOMAIN store
             /\ \A n \in DOMAIN store :
                   /\ n # reqs'[r].name => store'[n] = store[n]
                   /\ store'[n].description = store[n].description
                   /\ store'[n].schedule = store[n].schedule
                   /\ store'[n].max_participants = store[n].max_participants]_vars

\* a signup answered 200 changed its activity's list while the other
\* activities and its own other fields are as seeded
C17_Witness ==
    \E r \in Slots :
        /\ reqs[r].pc = "done" /\ reqs[r].op = "signup"
        /\ reqs[r].response = SignedUp
        /\ CountDocuments(store) > 1
        /\ DOMAIN store = DOMAIN catalog
        /\ store[reqs[r].name].participants # catalog[reqs[r].name].participants
        /\ store[reqs[r].name].max_participants = catalog[reqs[r].name].max_participants
        /\ \A n \in DOMAIN store : n # reqs[r].name => store[n] = catalog[n]

====
